---- MODULE Spec2Model ----
(***************************************************************************)
(* Model of the MQ listener in src/mq_client.py: the consumption loop      *)
(* listen_to_queue(), the tray thread's exit action on_exit(), and the     *)
(* outcomes of the calls the loop makes (connect, queue.get, save_message, *)
(* time.sleep).                                                            *)
(***************************************************************************)
EXTENDS Integers, Sequences, FiniteSets, TLC

\* ---- bounds of the model -------------------------------------------------
MaxTrace == 7       \* length of the window of most recent events kept
MaxSessions == 3    \* connections the broker accepts in one run
MaxMsgs == 2        \* messages the queue delivers in one run
MaxBody == 1        \* longest message body, in bytes
TicksPerSec == 2    \* clock ticks per second
MaxPieces == 4      \* fragments an input text of the sanitizer is built from
MaxAge == 2         \* file ages are told apart up to this many seconds

\* ---- delays of the program -----------------------------------------------
MessageDelaySecs == 10      \* time.sleep(10) after a saved message
ReconnectDelaySecs == 10    \* time.sleep(10) before the outer loop test

\* ---- state ---------------------------------------------------------------
VARIABLES
    stop_signal,    \* threading.Event: TRUE once set
    tray,           \* tray icon thread: "running" until Exit is clicked
    pc,             \* position of listen_to_queue
    qmgr,           \* local qmgr: id of the connection it is bound to, 0 if unbound
    queue,          \* local queue: id of the connection its handle belongs to, 0 if unbound
    open,           \* connections that are connected and not yet released
    nOpened,        \* number of connections established so far
    nRecv,          \* number of messages taken off the queue so far
    msg,            \* local msg: number of the message being processed, 0 if none
    trace,          \* the last MaxTrace operations, oldest first
    frac,           \* datetime.now(): ticks elapsed within the current second
    files           \* message_<timestamp>.xml files created in this run, each as
                    \* the age of its timestamp: whole seconds between it and
                    \* the current second, ages above MaxAge kept as MaxAge

\* save_message applied to a text, in isolation
VARIABLES
    raw,            \* the text first handed to save_message
    text,           \* parameter msg of the current save_message call
    clean_msg,      \* local clean_msg
    clean_content,  \* local clean_content
    first_content,  \* clean_content of the first call, once it is fed back
    spc,            \* position in save_message, "off" while the listener runs
    pass            \* 1 for the call on raw, 2 for the call on its own result

sanVars == <<raw, text, clean_msg, clean_content, first_content, spc, pass>>

loopVars == <<stop_signal, tray, pc, qmgr, queue, open, nOpened, nRecv, msg, trace, frac, files>>

vars == <<loopVars, sanVars>>

\* ---- exception classes and the two handlers ------------------------------
\* classes of exception the library calls can raise
ExceptionClasses == {"MQRC_NO_MSG_AVAILABLE", "MQMIError", "Exception"}

\* what connect_to_mq() and pymqi.Queue(...) raise: an MQMIError or another Exception
ConnectErrors == {"MQMIError", "Exception"}

\* pymqi.MQMIError instances (the first one has reason MQRC_NO_MSG_AVAILABLE)
IsMQMIError(e) == e \in {"MQRC_NO_MSG_AVAILABLE", "MQMIError"}

\* plausible slip: the outer handler written as `except pymqi.MQMIError`
OuterCatches_onlyMQMI(e) == IsMQMIError(e)

\* `except Exception as e` of the outer try
OuterCatches(e) == e \in ExceptionClasses

\* plausible slip: the outer handler ends in `continue`, skipping the sleep
OuterHandler_noBackoff(e) == IF OuterCatches(e) THEN "outer_check" ELSE "crashed"

\* where the loop continues after e reaches the outer try
OuterHandler(e) == IF OuterCatches(e) THEN "backoff" ELSE "crashed"

\* plausible slip: every MQMIError breaks out to reconnect
InnerHandler_alwaysBreak(e) ==
    IF IsMQMIError(e) THEN "backoff" ELSE OuterHandler(e)

\* plausible slip: every MQMIError is retried on the same connection
InnerHandler_alwaysContinue(e) ==
    IF IsMQMIError(e) THEN "inner_check" ELSE OuterHandler(e)

\* where the loop continues after e is raised inside the inner try
InnerHandler(e) ==
    IF IsMQMIError(e)
    THEN IF e = "MQRC_NO_MSG_AVAILABLE" THEN "inner_check" ELSE "backoff"
    ELSE OuterHandler(e)

\* ---- the event window ----------------------------------------------------
Ev(op, sid, m, flag, at) == [op |-> op, sid |-> sid, msg |-> m, flag |-> flag, at |-> at]

Log(e) == IF Len(trace) < MaxTrace THEN Append(trace, e) ELSE Append(Tail(trace), e)

\* ---- the clock and the output directory -----------------------------------
\* ages of the files after d more ticks have passed
Aged(d) ==
    LET secs == (frac + d) \div TicksPerSec
    IN  {IF a + secs > MaxAge THEN MaxAge ELSE a + secs : a \in files}

\* d ticks pass
Advance(d) ==
    /\ frac' = (frac + d) % TicksPerSec
    /\ files' = Aged(d)

\* time.sleep(secs) returns once secs seconds have passed
Sleep(secs) == Advance(secs * TicksPerSec)

\* tree.write(filename): the file named after the current second exists afterwards
WriteFile ==
    /\ files' = files \cup {0}
    /\ frac' = frac

\* ---- initial state -------------------------------------------------------
\* no text is being sanitized in isolation
SanOff ==
    /\ raw = <<>>
    /\ text = <<>>
    /\ clean_msg = <<>>
    /\ clean_content = <<>>
    /\ first_content = <<>>
    /\ spc = "off"
    /\ pass = 1

\* the listener before listen_to_queue() is entered
LoopInit ==
    /\ stop_signal = FALSE
    /\ tray = "running"
    /\ pc = "outer_check"
    /\ qmgr = 0
    /\ queue = 0
    /\ open = {}
    /\ nOpened = 0
    /\ nRecv = 0
    /\ msg = 0
    /\ trace = <<>>
    /\ frac \in 0..(TicksPerSec - 1)
    /\ files = {}

Init == LoopInit /\ SanOff

\* ---- the tray thread -----------------------------------------------------
\* on_exit: Exit clicked; sets the flag and stops the icon
OnExit ==
    /\ tray = "running"
    /\ pc \notin {"stopped", "crashed"}
    /\ stop_signal' = TRUE
    /\ tray' = "stopped"
    /\ trace' = Log(Ev("set_flag", queue, 0, TRUE, pc))
    /\ UNCHANGED <<pc, qmgr, queue, open, nOpened, nRecv, msg, frac, files, sanVars>>

\* ---- listen_to_queue -----------------------------------------------------
\* `while not stop_signal.is_set()` of the outer loop; the function returns
\* when the flag is set, which drops its locals
OuterCheck ==
    /\ pc = "outer_check"
    /\ IF stop_signal
       THEN /\ pc' = "stopped"
            /\ qmgr' = 0
            /\ queue' = 0
            /\ msg' = 0
            /\ trace' = Log(Ev("return", 0, 0, stop_signal, "-"))
       ELSE /\ pc' = "connect"
            /\ UNCHANGED <<qmgr, queue, msg, trace, frac, files, sanVars>>
    /\ UNCHANGED <<stop_signal, tray, open, nOpened, nRecv, frac, files, sanVars>>

\* connect_to_mq() succeeds and pymqi.Queue(qmgr, QUEUE_NAME) succeeds
ConnectOk ==
    /\ pc = "connect"
    /\ nOpened < MaxSessions
    /\ nOpened' = nOpened + 1
    /\ open' = open \cup {nOpened + 1}
    /\ qmgr' = nOpened + 1
    /\ queue' = nOpened + 1
    /\ pc' = "inner_check"
    /\ trace' = Log(Ev("open_ok", nOpened + 1, 0, stop_signal, "-"))
    /\ UNCHANGED <<stop_signal, tray, nRecv, msg, frac, files, sanVars>>

\* connect_to_mq() logs and re-raises e; nothing is bound
ConnectRaises(e) ==
    /\ pc = "connect"
    /\ pc' = OuterHandler(e)
    /\ trace' = Log(Ev("open_fail", 0, 0, stop_signal, "-"))
    /\ UNCHANGED <<stop_signal, tray, qmgr, queue, open, nOpened, nRecv, msg, frac, files, sanVars>>

\* connect_to_mq() succeeds, then pymqi.Queue(...) raises: qmgr is bound to
\* the new connection, queue keeps its previous binding
QueueRaises(e) ==
    /\ pc = "connect"
    /\ nOpened < MaxSessions
    /\ nOpened' = nOpened + 1
    /\ open' = open \cup {nOpened + 1}
    /\ qmgr' = nOpened + 1
    /\ pc' = OuterHandler(e)
    /\ trace' = Log(Ev("open_fail", nOpened + 1, 0, stop_signal, "-"))
    /\ UNCHANGED <<stop_signal, tray, queue, nRecv, msg, frac, files, sanVars>>

\* plausible slip: `while True` for the inner loop
InnerCheck_ignoreFlag ==
    /\ pc = "inner_check"
    /\ pc' = "receive"
    /\ UNCHANGED <<stop_signal, tray, qmgr, queue, open, nOpened, nRecv, msg, trace, frac, files, sanVars>>

\* `while not stop_signal.is_set()` of the inner loop; leaving it falls
\* through to the log and sleep after the outer try
InnerCheck ==
    /\ pc = "inner_check"
    /\ pc' = IF stop_signal THEN "backoff" ELSE "receive"
    /\ UNCHANGED <<stop_signal, tray, qmgr, queue, open, nOpened, nRecv, msg, trace, frac, files, sanVars>>

\* lengths of the byte strings queue.get can return
Bodies == 0..MaxBody

\* plausible slip: the test written as `if msg is not None`
Truthy_notNone(b) == b \in Bodies

\* `if msg:` - a bytes value is true unless it is empty
Truthy(b) == b > 0

\* name of the event logged for a queue.get that returns a body of length b
ReturnEvent(b) == IF b = 0 THEN "recv_empty" ELSE "recv_msg"

\* plausible slip: a received message is not saved
ReceiveMessage_noSave ==
    \E b \in Bodies :
        /\ pc = "receive"
        /\ Truthy(b)
        /\ nRecv < MaxMsgs
        /\ nRecv' = nRecv + 1
        /\ msg' = nRecv + 1
        /\ pc' = "delay"
        /\ trace' = Log(Ev(ReturnEvent(b), queue, nRecv + 1, stop_signal, "-"))
        /\ UNCHANGED <<stop_signal, tray, qmgr, queue, open, nOpened, frac, files, sanVars>>

\* queue.get returns a value that passes `if msg:`
ReceiveMessage ==
    \E b \in Bodies :
        /\ pc = "receive"
        /\ Truthy(b)
        /\ nRecv < MaxMsgs
        /\ nRecv' = nRecv + 1
        /\ msg' = nRecv + 1
        /\ pc' = "persist"
        /\ trace' = Log(Ev(ReturnEvent(b), queue, nRecv + 1, stop_signal, "-"))
        /\ UNCHANGED <<stop_signal, tray, qmgr, queue, open, nOpened, frac, files, sanVars>>

\* plausible slip: the else branch only logs
ReceiveEmpty_noSet ==
    \E b \in Bodies :
        /\ pc = "receive"
        /\ ~Truthy(b)
        /\ msg' = 0
        /\ pc' = "inner_check"
        /\ trace' = Log(Ev(ReturnEvent(b), queue, 0, stop_signal, "-"))
        /\ UNCHANGED <<stop_signal, tray, qmgr, queue, open, nOpened, nRecv, frac, files, sanVars>>

\* queue.get returns a value that fails `if msg:` (an empty body): the else
\* branch sets the flag
ReceiveEmpty ==
    \E b \in Bodies :
        /\ pc = "receive"
        /\ ~Truthy(b)
        /\ msg' = 0
        /\ stop_signal' = TRUE
        /\ pc' = "inner_check"
        /\ trace' = Log(Ev(ReturnEvent(b), queue, 0, TRUE, "-"))
        /\ UNCHANGED <<tray, qmgr, queue, open, nOpened, nRecv, frac, files, sanVars>>

\* name of the event logged for an exception raised by queue.get
RecvEvent(e) ==
    CASE e = "MQRC_NO_MSG_AVAILABLE" -> "recv_transient"
      [] e = "MQMIError" -> "recv_error"
      [] OTHER -> "recv_exc"

\* plausible slip: a failed receive also requests shutdown
ReceiveRaises_setsFlag(e) ==
    /\ pc = "receive"
    /\ e \in ExceptionClasses
    /\ pc' = InnerHandler(e)
    /\ stop_signal' = TRUE
    /\ trace' = Log(Ev(RecvEvent(e), queue, 0, TRUE, "-"))
    /\ UNCHANGED <<tray, qmgr, queue, open, nOpened, nRecv, msg, frac, files, sanVars>>

\* queue.get raises e
ReceiveRaises(e) ==
    /\ pc = "receive"
    /\ e \in ExceptionClasses
    /\ pc' = InnerHandler(e)
    /\ trace' = Log(Ev(RecvEvent(e), queue, 0, stop_signal, "-"))
    /\ UNCHANGED <<stop_signal, tray, qmgr, queue, open, nOpened, nRecv, msg, frac, files, sanVars>>

\* plausible slip: no sleep after a saved message
PersistOk_noDelay ==
    /\ pc = "persist"
    /\ pc' = "inner_check"
    /\ trace' = Log(Ev("persist_ok", queue, msg, stop_signal, "-"))
    /\ WriteFile
    /\ UNCHANGED <<stop_signal, tray, qmgr, queue, open, nOpened, nRecv, msg, sanVars>>

\* decode and save_message(msg) return
PersistOk ==
    /\ pc = "persist"
    /\ pc' = "delay"
    /\ trace' = Log(Ev("persist_ok", queue, msg, stop_signal, "-"))
    /\ WriteFile
    /\ UNCHANGED <<stop_signal, tray, qmgr, queue, open, nOpened, nRecv, msg, sanVars>>

\* plausible slip: save_message wrapped in its own try/except that only logs
PersistRaises_swallowed ==
    /\ pc = "persist"
    /\ pc' = "inner_check"
    /\ trace' = Log(Ev("persist_fail", queue, msg, stop_signal, "-"))
    /\ WriteFile \/ UNCHANGED <<frac, files>>
    /\ UNCHANGED <<stop_signal, tray, qmgr, queue, open, nOpened, nRecv, msg, sanVars>>

\* save_message(msg) raises (tree.write fails, before or after it created the
\* file): not an MQMIError
PersistRaises ==
    /\ pc = "persist"
    /\ pc' = InnerHandler("Exception")
    /\ trace' = Log(Ev("persist_fail", queue, msg, stop_signal, "-"))
    /\ WriteFile \/ UNCHANGED <<frac, files>>
    /\ UNCHANGED <<stop_signal, tray, qmgr, queue, open, nOpened, nRecv, msg, sanVars>>

\* plausible slip: the sleep after a saved message returns at once
Delay_noSleep ==
    /\ pc = "delay"
    /\ pc' = "inner_check"
    /\ trace' = Log(Ev("delay", queue, 0, stop_signal, "-"))
    /\ UNCHANGED <<stop_signal, tray, qmgr, queue, open, nOpened, nRecv, msg, frac, files, sanVars>>

\* time.sleep(10) after a saved message
Delay ==
    /\ pc = "delay"
    /\ pc' = "inner_check"
    /\ trace' = Log(Ev("delay", queue, 0, stop_signal, "-"))
    /\ Sleep(MessageDelaySecs)
    /\ UNCHANGED <<stop_signal, tray, qmgr, queue, open, nOpened, nRecv, msg, sanVars>>

\* plausible slip: stop_signal.clear() before the retry
Backoff_clearsFlag ==
    /\ pc = "backoff"
    /\ pc' = "outer_check"
    /\ stop_signal' = FALSE
    /\ trace' = Log(Ev("backoff", 0, 0, FALSE, "-"))
    /\ Sleep(ReconnectDelaySecs)
    /\ UNCHANGED <<tray, qmgr, queue, open, nOpened, nRecv, msg, sanVars>>

\* "Retrying connection in 10 seconds..." and time.sleep(10)
Backoff ==
    /\ pc = "backoff"
    /\ pc' = "outer_check"
    /\ trace' = Log(Ev("backoff", 0, 0, stop_signal, "-"))
    /\ Sleep(ReconnectDelaySecs)
    /\ UNCHANGED <<stop_signal, tray, qmgr, queue, open, nOpened, nRecv, msg, sanVars>>

\* The function has no queue.close() and no qmgr.disconnect(): a connection
\* is released only if the interpreter finalizes its objects, which can
\* happen once neither local is bound to it, or not at all.
Finalize(s) ==
    /\ s \in open
    /\ s # qmgr
    /\ s # queue
    /\ open' = open \ {s}
    /\ UNCHANGED <<stop_signal, tray, pc, qmgr, queue, nOpened, nRecv, msg, trace, frac, files, sanVars>>

\* time passes while the process runs
Tick ==
    /\ pc \notin {"stopped", "crashed"}
    /\ Advance(1)
    /\ UNCHANGED <<stop_signal, tray, pc, qmgr, queue, open, nOpened, nRecv, msg, trace, sanVars>>

Loop ==
    \/ OuterCheck
    \/ ConnectOk
    \/ \E e \in ConnectErrors : ConnectRaises(e)
    \/ \E e \in ConnectErrors : QueueRaises(e)
    \/ InnerCheck
    \/ ReceiveMessage
    \/ ReceiveEmpty
    \/ \E e \in ExceptionClasses : ReceiveRaises(e)
    \/ PersistOk
    \/ PersistRaises
    \/ Delay
    \/ Backoff

Next ==
    \/ Loop
    \/ OnExit
    \/ \E s \in 1..MaxSessions : Finalize(s)
    \/ Tick

Spec == Init /\ [][Next]_vars

\* every call the loop makes returns, so the loop thread keeps running
FairSpec == Spec /\ WF_vars(Loop)

\* ---- clean_message and html.unescape --------------------------------------
\* Texts are sequences of code points.
CharR == 82
CharF == 70
CharH == 72
CharLt == 60
CharQuestion == 63
CharX == 120
CharM == 109
CharL == 108
CharA == 97
CharP == 112
CharAmp == 38
CharSemicolon == 59
CharStx == 2
CharTab == 9

\* "RFH"
HeaderMarker == <<CharR, CharF, CharH>>

\* "<?xml"
XmlMarker == <<CharLt, CharQuestion, CharX, CharM, CharL>>

\* the character class [\x00-\x08\x0b-\x0c\x0e-\x1f]
IsControl(c) == c \in (0..8) \cup (11..12) \cup (14..31)

\* re.sub(r'[\x00-\x08\x0b-\x0c\x0e-\x1f]', '', msg)
StripControl(s) == SelectSeq(s, LAMBDA c : ~IsControl(c))

\* msg.startswith(p)
StartsWith(s, p) == Len(s) >= Len(p) /\ SubSeq(s, 1, Len(p)) = p

RECURSIVE FindFrom(_, _, _)
\* lowest index >= k at which p occurs in s, 0 if there is none
FindFrom(s, p, k) ==
    IF k + Len(p) - 1 > Len(s) THEN 0
    ELSE IF SubSeq(s, k, k + Len(p) - 1) = p THEN k
    ELSE FindFrom(s, p, k + 1)

RECURSIVE FindLastFrom(_, _, _)
\* highest index <= k at which p occurs in s, 0 if there is none
FindLastFrom(s, p, k) ==
    IF k < 1 THEN 0
    ELSE IF k + Len(p) - 1 <= Len(s) /\ SubSeq(s, k, k + Len(p) - 1) = p THEN k
    ELSE FindLastFrom(s, p, k - 1)

\* plausible slip: msg.rfind(p)
Find_last(s, p) == FindLastFrom(s, p, Len(s))

\* msg.find(p), as a 1-based index with 0 for "not found"
Find(s, p) == FindFrom(s, p, 1)

\* plausible slip: only the three characters of the marker are dropped
clean_message_dropsMarkerOnly(m) ==
    LET s == StripControl(m)
    IN  IF StartsWith(s, HeaderMarker) THEN SubSeq(s, Len(HeaderMarker) + 1, Len(s)) ELSE s

\* clean_message(msg)
clean_message(m) ==
    LET s == StripControl(m)
    IN  IF StartsWith(s, HeaderMarker)
        THEN LET idx == Find(s, XmlMarker)
             IN  IF idx # 0 THEN SubSeq(s, idx, Len(s)) ELSE s
        ELSE s

\* html.entities.html5 restricted to the names that can be written with the
\* characters above: amp, amp;, ap;, lap;, ll;, map;, mp;, pm;, xmap;
Html5Table ==
    { << <<CharA, CharM, CharP>>, <<CharAmp>> >>,
      << <<CharA, CharM, CharP, CharSemicolon>>, <<CharAmp>> >>,
      << <<CharA, CharP, CharSemicolon>>, <<8776>> >>,
      << <<CharL, CharA, CharP, CharSemicolon>>, <<10885>> >>,
      << <<CharL, CharL, CharSemicolon>>, <<8810>> >>,
      << <<CharM, CharA, CharP, CharSemicolon>>, <<8614>> >>,
      << <<CharM, CharP, CharSemicolon>>, <<8723>> >>,
      << <<CharP, CharM, CharSemicolon>>, <<177>> >>,
      << <<CharX, CharM, CharA, CharP, CharSemicolon>>, <<10236>> >> }

InHtml5(n) == \E e \in Html5Table : e[1] = n

Html5Value(n) == (CHOOSE e \in Html5Table : e[1] = n)[2]

\* the character class [^\t\n\f <&#;] of a named reference
IsNameChar(c) == c \notin {9, 10, 12, 32, 60, 38, 35, 59}

\* longest name a reference may have
MaxNameLen == 32

RECURSIVE NameRun(_, _)
\* length of the longest run of name characters at the start of s, at most n
NameRun(s, n) ==
    IF n = 0 \/ s = <<>> \/ ~IsNameChar(Head(s)) THEN 0
    ELSE 1 + NameRun(Tail(s), n - 1)

RECURSIVE LongestPrefix(_, _)
\* the for loop of _replace_charref: x runs from len(s)-1 down to 2
LongestPrefix(ref, x) ==
    IF x < 2 THEN <<CharAmp>> \o ref
    ELSE IF InHtml5(SubSeq(ref, 1, x))
         THEN Html5Value(SubSeq(ref, 1, x)) \o SubSeq(ref, x + 1, Len(ref))
         ELSE LongestPrefix(ref, x - 1)

\* _replace_charref for a named reference
ReplaceCharref(ref) ==
    IF InHtml5(ref) THEN Html5Value(ref) ELSE LongestPrefix(ref, Len(ref) - 1)

RECURSIVE Unescape(_)
\* html.unescape(s) for texts without '#': every match of
\* &[^\t\n\f <&#;]{1,32};? is replaced, left to right
Unescape(s) ==
    IF s = <<>> THEN <<>>
    ELSE LET t == Tail(s)
             n == NameRun(t, MaxNameLen)
             m == IF n < Len(t) /\ t[n + 1] = CharSemicolon THEN n + 1 ELSE n
         IN  IF Head(s) = CharAmp /\ n >= 1
             THEN ReplaceCharref(SubSeq(t, 1, m)) \o Unescape(SubSeq(t, m + 1, Len(t)))
             ELSE <<Head(s)>> \o Unescape(t)

\* ---- save_message on a text, in isolation ---------------------------------
\* fragments the input texts are built from: "RFH", "<?xml", "&amp;", "amp;",
\* \x02, \t, "a", "&"
Pieces ==
    { HeaderMarker, XmlMarker,
      <<CharAmp, CharA, CharM, CharP, CharSemicolon>>,
      <<CharA, CharM, CharP, CharSemicolon>>,
      <<CharStx>>, <<CharTab>>, <<CharA>>, <<CharAmp>> }

RECURSIVE Concat(_)
Concat(ps) == IF ps = <<>> THEN <<>> ELSE Head(ps) \o Concat(Tail(ps))

\* every text made of at most MaxPieces fragments
Inputs == UNION { {Concat(ps) : ps \in [1..n -> Pieces]} : n \in 0..MaxPieces }

SanInit ==
    /\ LoopInit
    /\ raw \in Inputs
    /\ text = raw
    /\ clean_msg = <<>>
    /\ clean_content = <<>>
    /\ first_content = <<>>
    /\ spc = "start"
    /\ pass = 1

\* clean_msg = clean_message(msg)
CleanStep ==
    /\ spc = "start"
    /\ clean_msg' = clean_message(text)
    /\ spc' = "cleaned"
    /\ UNCHANGED <<raw, text, clean_content, first_content, pass, loopVars>>

\* clean_content = html.unescape(clean_msg)
UnescapeStep ==
    /\ spc = "cleaned"
    /\ clean_content' = Unescape(clean_msg)
    /\ spc' = "done"
    /\ UNCHANGED <<raw, text, clean_msg, first_content, pass, loopVars>>

\* the Content written by the first call is handed to save_message again
Resubmit ==
    /\ spc = "done"
    /\ pass = 1
    /\ first_content' = clean_content
    /\ text' = clean_content
    /\ pass' = 2
    /\ spc' = "start"
    /\ UNCHANGED <<raw, clean_msg, clean_content, loopVars>>

SanNext == CleanStep \/ UnescapeStep \/ Resubmit

SanSpec == SanInit /\ [][SanNext]_vars

\* ---- reading the event window --------------------------------------------
\* the loop's own operations, without the tray thread's set_flag events
LoopTrace == SelectSeq(trace, LAMBDA e : e.op # "set_flag")

RecvOps == {"recv_msg", "recv_empty", "recv_transient", "recv_error", "recv_exc"}
OpenOps == {"open_ok", "open_fail"}
PersistOps == {"persist_ok", "persist_fail"}

\* number of events with operation op among t[i..j]
CountOp(t, op, i, j) == Cardinality({k \in i..j : t[k].op = op})

\* ---- C1 ------------------------------------------------------------------
\* C1: every receive that returns a message is followed, as the loop's very
\* next operation, by one save_message attempt for that message; every save
\* attempt directly follows the receive of its message; attempts happen in
\* receive order and no message is attempted twice.
C1_OnePersistPerReceiveInOrder ==
    LET lt == LoopTrace IN
    /\ \A i \in 1..Len(lt) :
         /\ (lt[i].op = "recv_msg" /\ i < Len(lt)) =>
               (lt[i+1].op \in PersistOps /\ lt[i+1].msg = lt[i].msg)
         /\ (lt[i].op \in PersistOps /\ i > 1) =>
               (lt[i-1].op = "recv_msg" /\ lt[i-1].msg = lt[i].msg)
    /\ \A i, j \in 1..Len(lt) :
         (i < j /\ lt[i].op \in PersistOps /\ lt[j].op \in PersistOps) =>
               lt[i].msg < lt[j].msg
    /\ (Len(lt) > 0 /\ lt[Len(lt)].op = "recv_msg") =>
               (pc = "persist" /\ msg = lt[Len(lt)].msg)

\* two messages received and each handed to save_message, in order
C1_Witness ==
    \E i, j \in 1..Len(trace) :
        /\ i < j
        /\ trace[i].op \in PersistOps /\ trace[i].msg = 1
        /\ trace[j].op \in PersistOps /\ trace[j].msg = 2

\* ---- C2 ------------------------------------------------------------------
\* C2: listen_to_queue never ends by an exception, it returns only with the
\* flag set, and while the flag is unset the loop always has a next step.
C2_ReturnsOnlyOnShutdown ==
    /\ pc # "crashed"
    /\ pc = "stopped" => stop_signal
    /\ ~stop_signal => ENABLED Loop

\* after a failure of each kind the loop is about to connect again
C2_Witness ==
    /\ ~stop_signal
    /\ pc = "connect"
    /\ \E i \in 1..Len(trace) : trace[i].op = "persist_fail"
    /\ \E i \in 1..Len(trace) : trace[i].op \in {"recv_error", "recv_exc"}

\* ---- C3 ------------------------------------------------------------------
\* C3: with the flag unset, whenever a run of failed opens ends in a
\* successful one, the operations in between are exactly one backoff sleep
\* after each failed open, the successful open is followed by a receive and
\* not by a sleep, and the loop has not returned.
C3_OneBackoffPerFailedOpen ==
    ~stop_signal =>
      /\ pc \notin {"stopped", "crashed"}
      /\ \A i, j \in 1..Len(trace) :
           ( /\ i < j
             /\ trace[i].op = "open_fail"
             /\ trace[j].op = "open_ok"
             /\ \A k \in i..(j-1) : trace[k].op # "open_ok" ) =>
               ( /\ \A k \in i..(j-1) : trace[k].op \in {"open_fail", "backoff"}
                 /\ \A k \in i..(j-1) :
                       trace[k].op = "open_fail" => trace[k+1].op = "backoff"
                 /\ CountOp(trace, "backoff", i, j-1) = CountOp(trace, "open_fail", i, j-1) )
      /\ \A j \in 1..Len(trace) :
           trace[j].op = "open_ok" =>
               IF j < Len(trace) THEN trace[j+1].op \in RecvOps
               ELSE pc \in {"inner_check", "receive"}

\* three failed opens, three sleeps, then a successful open
C3_Witness ==
    /\ ~stop_signal
    /\ pc = "receive"
    /\ Len(trace) = 7
    /\ \A k \in {1, 3, 5} : trace[k].op = "open_fail" /\ trace[k+1].op = "backoff"
    /\ trace[7].op = "open_ok"

\* ---- C4 ------------------------------------------------------------------
\* C4 (as claimed): once the flag is set while the loop is between messages
\* in the inner loop, the loop performs no reconnect backoff sleep before it
\* returns.
C4_NoBackoffAfterShutdown ==
    \A i, j \in 1..Len(trace) :
        ( /\ i < j
          /\ trace[i].op = "set_flag"
          /\ trace[i].at \in {"inner_check", "receive"} ) =>
              trace[j].op # "backoff"

\* ---- C5 ------------------------------------------------------------------
\* C5 (as claimed): when the loop has returned, no connection opened during
\* the run is still open.
C5_StoppedReleasesSessions ==
    pc = "stopped" => open = {}

\* ---- C6 ------------------------------------------------------------------
\* C6: once the flag is set, the loop eventually returns.
C6_ShutdownTerminates == stop_signal ~> (pc = "stopped")

\* returned after Exit was clicked and a later receive found no message
C6_Witness ==
    /\ pc = "stopped"
    /\ \E i, j \in 1..Len(trace) :
          i < j /\ trace[i].op = "set_flag" /\ trace[j].op = "recv_transient"

\* ---- C7 ------------------------------------------------------------------
\* C7: after a receive that ends in MQRC_NO_MSG_AVAILABLE with the flag
\* unset, the loop's next operation is another receive on the same
\* connection: no sleep and no open in between.
C7_TransientEmptyRetries ==
    /\ \A i \in 1..Len(trace) :
         ( /\ trace[i].op = "recv_transient"
           /\ ~trace[i].flag
           /\ i < Len(trace)
           /\ trace[i+1].op # "set_flag" ) =>
               (trace[i+1].op \in RecvOps /\ trace[i+1].sid = trace[i].sid)
    /\ ( /\ Len(trace) > 0
         /\ trace[Len(trace)].op = "recv_transient"
         /\ ~stop_signal ) =>
               ( /\ pc \in {"inner_check", "receive"}
                 /\ queue = trace[Len(trace)].sid
                 /\ queue \in open )

\* three consecutive transient-empty receives on one connection
C7_Witness ==
    \E i \in 1..Len(trace) :
        /\ i + 2 <= Len(trace)
        /\ \A k \in i..(i+2) :
              trace[k].op = "recv_transient" /\ ~trace[k].flag /\ trace[k].sid = trace[i].sid

\* ---- C8 ------------------------------------------------------------------
\* an empty receive is in the window
SawEmpty == \E i \in 1..Len(trace) : trace[i].op = "recv_empty"

\* after an empty receive the flag is set and the loop only sleeps once and returns
C8_AfterEmpty ==
    LET lt == LoopTrace IN
    \A i \in 1..Len(lt) :
        lt[i].op = "recv_empty" =>
            /\ lt[i].flag
            /\ stop_signal
            /\ i + 2 >= Len(lt)
            /\ i + 1 <= Len(lt) => lt[i+1].op = "backoff"
            /\ i + 2 <= Len(lt) => lt[i+2].op = "return"

\* C8: a receive that returns nothing sets the flag; afterwards the loop
\* issues no receive and no open, leaves the inner loop and returns.
C8_EmptyStopsConsumer == [] C8_AfterEmpty /\ (SawEmpty ~> (pc = "stopped"))

\* the loop returned because of an empty receive, Exit never clicked
C8_Witness ==
    /\ pc = "stopped"
    /\ tray = "running"
    /\ SawEmpty

\* ---- C9 ------------------------------------------------------------------
\* C9 (as claimed): after a failed save_message the loop stays in the inner
\* loop on the same connection; its next operation is not a backoff sleep
\* and not an open.
C9_PersistErrorStaysInSession ==
    LET lt == LoopTrace IN
    /\ \A i \in 1..Len(lt) :
         (lt[i].op = "persist_fail" /\ i < Len(lt)) =>
             lt[i+1].op \notin ({"backoff"} \cup OpenOps)
    /\ (Len(lt) > 0 /\ lt[Len(lt)].op = "persist_fail") =>
             pc \in {"inner_check", "receive", "delay"}

\* C9 (amended): a failed save_message does not end the loop; it is handled
\* by the outer handler: the loop's next operation is one backoff sleep,
\* then either an open or, with the flag set, the return; no receive is
\* issued on the connection the message came from.
C9_PersistErrorReconnects ==
    LET lt == LoopTrace IN
    /\ pc # "crashed"
    /\ \A i \in 1..Len(lt) :
         lt[i].op = "persist_fail" =>
            /\ i + 1 <= Len(lt) => lt[i+1].op = "backoff"
            /\ i + 2 <= Len(lt) =>
                  \/ lt[i+2].op \in OpenOps
                  \/ lt[i+2].op = "return" /\ lt[i+2].flag
            /\ \A j \in (i+1)..Len(lt) :
                  lt[j].op \in RecvOps => lt[j].sid # lt[i].sid
    /\ (Len(lt) > 0 /\ lt[Len(lt)].op = "persist_fail") => pc = "backoff"

\* a failed save, the sleep, a new connection and the next message received on it
C9_Witness ==
    LET lt == LoopTrace IN
    \E i \in 1..Len(lt) :
        /\ i + 3 <= Len(lt)
        /\ lt[i].op = "persist_fail"
        /\ lt[i+1].op = "backoff"
        /\ lt[i+2].op = "open_ok"
        /\ lt[i+3].op = "recv_msg"
        /\ lt[i+3].sid # lt[i].sid

\* ---- C10 -----------------------------------------------------------------
\* C10 (as claimed): when the loop issues an open, every earlier connection
\* has been released, and at most one connection is open at any time.
C10_AtMostOneSessionOpen ==
    /\ Cardinality(open) <= 1
    /\ pc = "connect" => open = {}

\* ---- C11 -----------------------------------------------------------------
\* C11: no step of the tray thread or of the loop takes the flag from set
\* back to unset.
C11_FlagIsOneWay == [][stop_signal => stop_signal']_vars

\* the flag was set and the loop went on to sleep and return with it set
C11_Witness ==
    /\ stop_signal
    /\ pc = "stopped"
    /\ \E i, j \in 1..Len(trace) :
          i < j /\ trace[i].flag /\ trace[j].op = "backoff" /\ trace[j].flag

\* ---- C12 -----------------------------------------------------------------
\* C12 (as claimed): the flag changes only in the tray thread's exit action.
C12_OnlyTraySetsFlag == [][stop_signal' # stop_signal => tray' # tray]_vars

\* C12 (amended): the flag changes only in the tray thread's exit action or
\* in the loop's own branch for a receive that returned nothing; every other
\* step of the loop leaves it unchanged.
C12_FlagWriters ==
    [][stop_signal' # stop_signal =>
          \/ tray' # tray
          \/ /\ pc = "receive"
             /\ pc' = "inner_check"
             /\ trace'[Len(trace')].op = "recv_empty"]_vars

\* the loop has passed through every kind of step and the flag is set by
\* the loop itself, Exit never clicked
C12_Witness ==
    /\ stop_signal
    /\ tray = "running"
    /\ pc = "backoff"
    /\ \E i \in 1..Len(trace) : trace[i].op = "delay"
    /\ trace[Len(trace)].op = "recv_empty"

\* ---- C13 -----------------------------------------------------------------
\* C13: after a successful save the loop's next operation is the 10 s
\* sleep, exactly once, and after it either a receive on the same connection
\* or, with the flag set, the sleep that leads to the return.
C13_OneDelayAfterSavedMessage ==
    LET lt == LoopTrace IN
    /\ \A i \in 1..Len(lt) :
         /\ lt[i].op = "persist_ok" =>
              /\ i + 1 <= Len(lt) => (lt[i+1].op = "delay" /\ lt[i+1].sid = lt[i].sid)
              /\ i + 2 <= Len(lt) =>
                    \/ lt[i+2].op \in RecvOps /\ lt[i+2].sid = lt[i].sid
                    \/ lt[i+2].op = "backoff" /\ lt[i+2].flag
         /\ (lt[i].op = "delay" /\ i > 1) => lt[i-1].op = "persist_ok"
    /\ (Len(lt) > 0 /\ lt[Len(lt)].op = "persist_ok") =>
            (pc = "delay" /\ queue = lt[Len(lt)].sid)
    /\ (Len(lt) > 0 /\ lt[Len(lt)].op = "delay") =>
            (pc \in {"inner_check", "receive", "backoff"} /\ queue = lt[Len(lt)].sid)

\* a saved message, the sleep, and the next message received on the same connection
C13_Witness ==
    LET lt == LoopTrace IN
    \E i \in 1..Len(lt) :
        /\ i + 2 <= Len(lt)
        /\ lt[i].op = "persist_ok"
        /\ lt[i+1].op = "delay"
        /\ lt[i+2].op = "recv_msg"
        /\ lt[i+2].sid = lt[i].sid

\* ---- C14 -----------------------------------------------------------------
\* C14: after a receive that fails with another MQ error or any other
\* exception the loop has not crashed, its next operation is one backoff
\* sleep, then an open (or, with the flag set, the return), and no later
\* receive uses the connection the error came from.
C14_ReceiveErrorReconnects ==
    LET lt == LoopTrace IN
    /\ pc # "crashed"
    /\ \A i \in 1..Len(lt) :
         lt[i].op \in {"recv_error", "recv_exc"} =>
            /\ i + 1 <= Len(lt) => lt[i+1].op = "backoff"
            /\ i + 2 <= Len(lt) =>
                  \/ lt[i+2].op \in OpenOps
                  \/ lt[i+2].op = "return" /\ lt[i+2].flag
            /\ \A j \in (i+1)..Len(lt) :
                  lt[j].op \in RecvOps => lt[j].sid # lt[i].sid
    /\ (Len(lt) > 0 /\ lt[Len(lt)].op \in {"recv_error", "recv_exc"}) => pc = "backoff"

\* a failed receive, the sleep, a new connection and a receive on it
C14_Witness ==
    LET lt == LoopTrace IN
    \E i \in 1..Len(lt) :
        /\ i + 3 <= Len(lt)
        /\ lt[i].op = "recv_error"
        /\ lt[i+1].op = "backoff"
        /\ lt[i+2].op = "open_ok"
        /\ lt[i+3].op \in RecvOps
        /\ lt[i+3].sid # lt[i].sid

\* ---- C18 -----------------------------------------------------------------
\* C18: after the tray thread has set the flag, the loop starts at most one
\* more open or receive (not one of each) and at most one more save.
C18_AtMostOneOperationAfterExit ==
    \A i \in 1..Len(trace) :
        trace[i].op = "set_flag" =>
            /\ Cardinality({j \in (i+1)..Len(trace) :
                                trace[j].op \in RecvOps \cup OpenOps}) <= 1
            /\ Cardinality({j \in (i+1)..Len(trace) : trace[j].op \in PersistOps}) <= 1

\* Exit clicked during a receive; the message was still received and saved
\* before the loop returned
C18_Witness ==
    /\ pc = "stopped"
    /\ \E i \in 1..Len(trace) :
          /\ i + 2 <= Len(trace)
          /\ trace[i].op = "set_flag"
          /\ trace[i].at = "receive"
          /\ trace[i+1].op = "recv_msg"
          /\ trace[i+2].op = "persist_ok"

\* ---- C19 -----------------------------------------------------------------
\* C19: a queue.get that returns an empty body is never handed to
\* save_message: it is not numbered as a message, the flag is set by it and
\* no save attempt follows it.
C19_EmptyBodyIsNoMessage ==
    LET lt == LoopTrace IN
    /\ \A i \in 1..Len(lt) :
         lt[i].op = "recv_empty" =>
            /\ lt[i].msg = 0
            /\ lt[i].flag
            /\ \A j \in (i+1)..Len(lt) : lt[j].op \notin PersistOps
    /\ (Len(lt) > 0 /\ lt[Len(lt)].op = "recv_empty") =>
            (pc \in {"inner_check", "backoff"} /\ msg = 0 /\ stop_signal)

\* a message was saved, then an empty body arrived and the loop returned
C19_Witness ==
    LET lt == LoopTrace IN
    /\ Len(lt) > 0
    /\ lt[Len(lt)].op = "return"
    /\ \E i, j \in 1..Len(lt) :
          i < j /\ lt[i].op = "persist_ok" /\ lt[j].op = "recv_empty"

\* ---- C15 -----------------------------------------------------------------
\* C15: whenever save_message runs, no file created earlier in this run
\* carries the current second in its name.
C15_NeverOverwritesOwnFile ==
    [][(pc = "persist" /\ pc' # "persist") => 0 \notin files]_vars

\* a file just written next to an older file of the same run
C15_Witness ==
    /\ pc = "delay"
    /\ 0 \in files
    /\ MaxAge \in files
    /\ \E i \in 1..Len(trace) : trace[i].op = "persist_fail"

\* ---- C16 -----------------------------------------------------------------
\* indices at which "<?xml" occurs in s
XmlOccurrences(s) == {k \in 1..Len(s) : k + 4 <= Len(s) /\ SubSeq(s, k, k + 4) = XmlMarker}

\* s begins with the three characters R, F, H
BeginsWithRFH(s) == Len(s) >= 3 /\ s[1] = CharR /\ s[2] = CharF /\ s[3] = CharH

\* C16: with s the text after control characters are removed, clean_message
\* yields the part of s from the first "<?xml" on when s begins with "RFH"
\* and contains "<?xml", and s itself in every other case.
C16_HeaderStripping ==
    spc \in {"cleaned", "done"} =>
        LET s == StripControl(text)
            occ == XmlOccurrences(s)
        IN  IF BeginsWithRFH(s) /\ occ # {}
            THEN LET first == CHOOSE k \in occ : \A j \in occ : k <= j
                 IN  clean_msg = SubSeq(s, first, Len(s))
            ELSE clean_msg = s

\* a header with a control character inside, followed by two "<?xml": the
\* text was cut at the first one
C16_Witness ==
    /\ spc = "cleaned"
    /\ pass = 1
    /\ text # StripControl(text)
    /\ BeginsWithRFH(StripControl(text))
    /\ Cardinality(XmlOccurrences(StripControl(text))) = 2
    /\ Len(clean_msg) = 10

\* ---- C17 -----------------------------------------------------------------
\* C17 (as claimed): sanitizing the result of a sanitization changes nothing.
C17_Idempotent ==
    (spc = "done" /\ pass = 2) => clean_content = first_content

\* C17 (amended): for a text without '&', sanitizing the result of a
\* sanitization changes nothing.
C17_IdempotentWithoutEntities ==
    (spc = "done" /\ pass = 2 /\ \A k \in 1..Len(raw) : raw[k] # CharAmp) =>
        clean_content = first_content

\* a text with a control character and a header before "<?xml", no '&':
\* the first pass changed it, the second pass did not
C17_Witness ==
    /\ spc = "done"
    /\ pass = 2
    /\ \A k \in 1..Len(raw) : raw[k] # CharAmp
    /\ \E k \in 1..Len(raw) : IsControl(raw[k])
    /\ BeginsWithRFH(StripControl(raw))
    /\ first_content # StripControl(raw)
    /\ clean_content = first_content
====
